---- MODULE Spec2Model ----
(***************************************************************************)
(* Credibility propagation of the intelliproof backend:                    *)
(*   get_claim_credibility  (src/backend/ai_api.py:78-252)                 *)
(*   get_affected_nodes     (src/backend/ai_api.py:1616-1670)              *)
(*   get_node_credibility   (src/backend/ai_api.py:1673-1815)              *)
(* with the request models of src/backend/ai_models.py.                    *)
(*                                                                         *)
(* Python floats are modelled in fixed point: scores, evidence values,     *)
(* weights, lambda and epsilon are integers in units of 1/Scale; a product *)
(* of two of them (an edge contribution, Z) is in units of 1/Scale^2.      *)
(* Optional[T] is modelled as a sequence: None is <<>>, a value v is <<v>>.*)
(* A Python dict is a function whose DOMAIN is the dict's key set.         *)
(***************************************************************************)
EXTENDS Integers, Sequences, FiniteSets, TLC

\* ------------------------------------------------------------------------
\* Numbers
\* ------------------------------------------------------------------------

\* Resolution of the fixed-point representation of a Python float.
Scale == 100

Abs(x) == IF x < 0 THEN -x ELSE x

Min2(x, y) == IF x < y THEN x ELSE y

Max2(x, y) == IF x > y THEN x ELSE y

\* n / d rounded to the nearest integer (half away from zero), d > 0.
RoundDiv(n, d) == IF n >= 0 THEN (2 * n + d) \div (2 * d)
                            ELSE -((2 * (-n) + d) \div (2 * d))

RECURSIVE SumSeq(_)
SumSeq(s) == IF s = <<>> THEN 0 ELSE Head(s) + SumSeq(Tail(s))

\* A logistic squashing function in place of tanh: 0.5 at 0, between 0.0 and
\* 1.0, on a value Z in units of 1/Scale^2.
Logistic(Z) ==
    Max2(0, Min2(Scale, (Scale \div 2) + RoundDiv(Z, 4 * Scale)))

\* math.tanh on a value Z in units of 1/Scale^2, result in units of 1/Scale:
\* tanh(x) ~ x (27 + x^2) / (27 + 9 x^2) for |x| < 3 and +-1 beyond, which
\* is odd, monotone, 0 at 0 and reaches exactly +-1.0 as the float tanh does.
Tanh(Z) ==
    LET z == RoundDiv(Abs(Z), Scale)
        t == IF z >= 3 * Scale
             THEN Scale
             ELSE RoundDiv(z * (27 * Scale * Scale + z * z),
                           27 * Scale * Scale + 9 * z * z)
    IN  IF Z < 0 THEN -t ELSE t

\* ------------------------------------------------------------------------
\* Optional values and dicts
\* ------------------------------------------------------------------------

None == <<>>

Some(v) == <<v>>

IsNone(x) == x = <<>>

Val(x) == x[1]

EmptyDict == <<>>

\* d[k] = v
Put(d, k, v) == [x \in (DOMAIN d) \cup {k} |-> IF x = k THEN v ELSE d[x]]

SeqToSet(s) == {s[i] : i \in 1..Len(s)}

\* {node.id for node in nodes}
Ids(nodes) == {nodes[i].id : i \in 1..Len(nodes)}

\* The node a dict comprehension over `nodes` ends up holding for `id`: the
\* last one in the list (a later assignment overwrites an earlier one).
NodeById(nodes, id) ==
    nodes[CHOOSE i \in 1..Len(nodes) :
              /\ nodes[i].id = id
              /\ \A j \in (i + 1)..Len(nodes) : nodes[j].id # id]

\* ------------------------------------------------------------------------
\* get_claim_credibility (full-graph propagation)
\* ------------------------------------------------------------------------

\* abs(edge_contribution) > 0.001, in units of 1/Scale^2.
MeaningfulThreshold == 10

\* getattr(node, "evidence_score", None): NodeModel declares no such field
\* and pydantic drops undeclared request fields, so a parsed node has none.
EvidenceScore(node) ==
    IF "evidence_score" \in DOMAIN node THEN node.evidence_score ELSE None

\* Step 1: E[node.id] for every node of the request.
ClaimE(d) ==
    [id \in Ids(d.nodes) |->
        LET node    == NodeById(d.nodes, id)
            min_val == IF ~IsNone(d.evidence_min) THEN Val(d.evidence_min) ELSE -Scale
            max_val == IF ~IsNone(d.evidence_max) THEN Val(d.evidence_max) ELSE Scale
            score   == EvidenceScore(node)
        IN  IF IsNone(score) THEN 0
            ELSE Max2(Min2(Val(score), max_val), min_val)]

\* The early returns without the single-node shortcut.
ClaimEarlyReturnEmptyOnly(d) == Len(d.nodes) = 0

\* The two early returns taken before the adjacency map is built.
ClaimEarlyReturn(d) ==
    \/ Len(d.nodes) = 0
    \/ Len(d.nodes) = 1 /\ Len(d.edges) = 0

\* incoming_edges[edge.source].append(edge) raises KeyError for a source
\* that is no node id.
ClaimIncomingOk(d) == \A k \in 1..Len(d.edges) : d.edges[k].source \in Ids(d.nodes)

\* incoming_edges: node id -> the edges whose SOURCE is that node, in order.
ClaimIncoming(d) ==
    [id \in Ids(d.nodes) |-> SelectSeq(d.edges, LAMBDA e : e.source = id)]

\* source_nodes: the ids whose incoming_edges list is empty.
SourceNodes(inc) == {id \in DOMAIN inc : inc[id] = <<>>}

\* The contribution of one edge of non-zero weight, given the score read
\* for it (c_prev[edge.target]).
EdgeContribution(weight, source_score) ==
    LET w          == IF IsNone(weight) THEN Scale ELSE Val(weight)
        strength   == Abs(w)
        is_support == w > 0
    IN  IF is_support THEN strength * source_score
                      ELSE -strength * Abs(source_score)

\* The edges of a node that pass `if edge.weight == 0.0: continue`.
NonZeroEdges(edges) == SelectSeq(edges, LAMBDA e : e.weight # Some(0))

\* c_prev[edge.target] raises KeyError for a target that is no node id.
ClaimStepOk(inc, c_prev) ==
    \A id \in DOMAIN inc : \A k \in 1..Len(inc[id]) :
        inc[id][k].weight # Some(0) => inc[id][k].target \in DOMAIN c_prev

\* What one iteration prints per node: one record per edge that contributes.
ClaimContributions(inc, c_prev) ==
    [id \in DOMAIN inc |->
        LET es == NonZeroEdges(inc[id])
        IN  [k \in 1..Len(es) |->
                [source       |-> es[k].target,
                 weight       |-> es[k].weight,
                 source_score |-> c_prev[es[k].target],
                 contribution |-> EdgeContribution(es[k].weight, c_prev[es[k].target])]]]

\* A pass that reads a neighbour's score from c_new where the pass has
\* already written it.
ReadScoreInPlace(c_prev, c_new, id) ==
    IF id \in DOMAIN c_new THEN c_new[id] ELSE c_prev[id]

\* The score a pass reads for a neighbour: c_prev[edge.target] in
\* get_claim_credibility, c[source_id] in get_node_credibility; c_new is
\* what the pass has written so far.
ReadScore(c_prev, c_new, id) == c_prev[id]

\* The ids of `nodes` in list order, each once: the order in which a dict
\* keyed by them, or the list itself, is iterated.
IdOrder(nodes) ==
    LET first == SelectSeq([k \in 1..Len(nodes) |-> k],
                           LAMBDA k : \A j \in 1..(k - 1) : nodes[j].id # nodes[k].id)
    IN  [k \in 1..Len(first) |-> nodes[first[k]].id]

\* The loop body for one node_id: the value the pass leaves in c_new[node_id].
ClaimUpdate(d, Ev, inc, c_prev, c_new, id) ==
    IF id \notin SourceNodes(inc) /\ inc[id] # <<>>
    THEN LET es == NonZeroEdges(inc[id])
             cs == [k \in 1..Len(es) |->
                       EdgeContribution(es[k].weight,
                                        ReadScore(c_prev, c_new, es[k].target))]
             meaningful_edges == {k \in 1..Len(cs) : Abs(cs[k]) > MeaningfulThreshold}
         IN  IF meaningful_edges # {}
             THEN Tanh(d.lambda_ * Ev[id] + SumSeq(cs))
             ELSE c_prev[id]
    ELSE c_new[id]

\* `for node_id in incoming_edges`, taken in the order `order` from position
\* k on; c_new starts as c_prev.copy().
RECURSIVE ClaimPass(_, _, _, _, _, _, _)
ClaimPass(d, Ev, inc, c_prev, order, k, c_new) ==
    IF k > Len(order) THEN c_new
    ELSE ClaimPass(d, Ev, inc, c_prev, order, k + 1,
                   Put(c_new, order[k],
                       ClaimUpdate(d, Ev, inc, c_prev, c_new, order[k])))

\* One pass of the loop body over incoming_edges: c_new.
ClaimStep(d, Ev, inc, c_prev) ==
    ClaimPass(d, Ev, inc, c_prev, IdOrder(d.nodes), 1, c_prev)

\* max(abs(c_new[nid] - c_prev[nid]) for nid in c_new)
MaxChange(c_new, c_prev) ==
    LET ids == DOMAIN c_new
    IN  CHOOSE m \in {Abs(c_new[i] - c_prev[i]) : i \in ids} :
            \A i \in ids : Abs(c_new[i] - c_prev[i]) <= m

\* A convergence test that only an empty node set passes.
ClaimConvergedEmptyOnly(d, c_new, c_prev) == DOMAIN c_new = {}

\* if not c_new or max(...) < data.epsilon: break
ClaimConverged(d, c_new, c_prev) ==
    \/ DOMAIN c_new = {}
    \/ MaxChange(c_new, c_prev) < d.epsilon

\* ------------------------------------------------------------------------
\* get_affected_nodes
\* ------------------------------------------------------------------------

\* A dependency graph keyed the other way round: by the source of each edge,
\* listing the targets.
DependencyGraphForward(edges) ==
    [s \in {edges[k].source : k \in 1..Len(edges)} |->
        LET from == SelectSeq(edges, LAMBDA e : e.source = s)
        IN  [k \in 1..Len(from) |-> from[k].target]]

\* dependency_graph[edge.target] = the sources of the edges into it, in order.
DependencyGraph(edges) ==
    [t \in {edges[k].target : k \in 1..Len(edges)} |->
        LET into == SelectSeq(edges, LAMBDA e : e.target = t)
        IN  [k \in 1..Len(into) |-> into[k].source]]

\* A loop body that adds every dependent of current_node, the ones already
\* in affected_nodes too.
NewDependentsSeenToo(dependency_graph, affected_nodes, current_node) ==
    IF current_node \in DOMAIN dependency_graph
    THEN SeqToSet(dependency_graph[current_node])
    ELSE {}

\* The body of the while loop for the popped current_node: the dependents it
\* adds to affected_nodes and to nodes_to_check.
NewDependents(dependency_graph, affected_nodes, current_node) ==
    IF current_node \in DOMAIN dependency_graph
    THEN SeqToSet(dependency_graph[current_node]) \ affected_nodes
    ELSE {}

\* nodes_to_check after a pass that forgets the nodes still waiting.
NextToCheckReplaced(nodes_to_check, current_node, new) == new

\* nodes_to_check after a pass: pop() removed current_node, and each new
\* dependent was added by nodes_to_check.add(dependent_node).
NextToCheck(nodes_to_check, current_node, new) ==
    (nodes_to_check \ {current_node}) \cup new

\* The while loop: pop a node, add its unseen dependents to both sets.
RECURSIVE AffectedLoop(_, _, _)
AffectedLoop(dependency_graph, affected_nodes, nodes_to_check) ==
    IF nodes_to_check = {} THEN affected_nodes
    ELSE LET current_node == CHOOSE n \in nodes_to_check : TRUE
             new == NewDependents(dependency_graph, affected_nodes, current_node)
         IN  AffectedLoop(dependency_graph,
                          affected_nodes \cup new,
                          NextToCheck(nodes_to_check, current_node, new))

get_affected_nodes(target_node_id, nodes, edges) ==
    AffectedLoop(DependencyGraph(edges), {target_node_id}, {target_node_id})

\* ------------------------------------------------------------------------
\* get_node_credibility (selective propagation)
\* ------------------------------------------------------------------------

\* Step 2: the nodes and the edges of the affected subgraph.
AffectedNodes(d, ids) == SelectSeq(d.nodes, LAMBDA n : n.id \in ids)

AffectedEdges(d, ids) ==
    SelectSeq(d.edges, LAMBDA e : e.source \in ids /\ e.target \in ids)

\* node.evidence or []
EvidenceList(node) == IF IsNone(node.evidence) THEN <<>> ELSE Val(node.evidence)

EffectiveMin(node, d) ==
    IF ~IsNone(node.evidence_min) THEN node.evidence_min ELSE d.evidence_min

EffectiveMax(node, d) ==
    IF ~IsNone(node.evidence_max) THEN node.evidence_max ELSE d.evidence_max

\* max(min(ev, max_val), min_val) raises TypeError when a bound is None.
NodeEvidenceOk(node, d) ==
    EvidenceList(node) # <<>> =>
        ~IsNone(EffectiveMin(node, d)) /\ ~IsNone(EffectiveMax(node, d))

\* Step 3 for one node: 0.0 without evidence, else the mean of the clamped
\* evidence values.
NodeEvidence(node, d) ==
    LET evidence == EvidenceList(node)
    IN  IF evidence = <<>> THEN 0
        ELSE LET min_val == Val(EffectiveMin(node, d))
                 max_val == Val(EffectiveMax(node, d))
                 clamped_evidence ==
                     [k \in 1..Len(evidence) |->
                         Max2(Min2(evidence[k], max_val), min_val)]
             IN  RoundDiv(SumSeq(clamped_evidence), Len(clamped_evidence))

NodeEOk(d, affected_nodes) ==
    \A k \in 1..Len(affected_nodes) : NodeEvidenceOk(affected_nodes[k], d)

NodeE(d, affected_nodes) ==
    [id \in Ids(affected_nodes) |-> NodeEvidence(NodeById(affected_nodes, id), d)]

\* target_node is found and is_isolated = not has_outgoing_edges.
IsIsolated(d) ==
    /\ d.target_node_id \in Ids(d.nodes)
    /\ ~\E k \in 1..Len(d.edges) : d.edges[k].source = d.target_node_id

\* An absent weight read as strength 0.5.
WeightOrHalf(weight) ==
    IF IsNone(weight) THEN 50 ELSE IF weight = Some(0) THEN Scale ELSE Val(weight)

\* edge.weight or 1.0
WeightOrOne(weight) ==
    IF IsNone(weight) \/ weight = Some(0) THEN Scale ELSE Val(weight)

\* Step 5, edge by edge from position k on: `if edge.target not in
\* incoming_edges: incoming_edges[edge.source] = []`, then the append to
\* incoming_edges[edge.source], which raises KeyError when that key is absent.
RECURSIVE BuildIncoming(_, _, _)
BuildIncoming(affected_edges, k, incoming) ==
    IF k > Len(affected_edges) THEN [ok |-> TRUE, map |-> incoming]
    ELSE LET edge == affected_edges[k]
             inc1 == IF edge.target \notin DOMAIN incoming
                     THEN Put(incoming, edge.source, <<>>)
                     ELSE incoming
         IN  IF edge.source \notin DOMAIN inc1
             THEN [ok |-> FALSE, map |-> inc1]
             ELSE BuildIncoming(affected_edges, k + 1,
                      Put(inc1, edge.source,
                          Append(inc1[edge.source],
                                 [source |-> edge.target,
                                  weight |-> WeightOrOne(edge.weight)])))

NodeIncoming(affected_edges) == BuildIncoming(affected_edges, 1, EmptyDict)

\* What one iteration prints per node: one record per adjacency entry whose
\* source_id is in c.
NodeContributions(inc, c_prev) ==
    [id \in DOMAIN c_prev |->
        IF id \in DOMAIN inc
        THEN LET es == SelectSeq(inc[id], LAMBDA p : p.source \in DOMAIN c_prev)
             IN  [k \in 1..Len(es) |->
                     [source       |-> es[k].source,
                      weight       |-> Some(es[k].weight),
                      source_score |-> c_prev[es[k].source],
                      contribution |-> es[k].weight * c_prev[es[k].source]]]
        ELSE <<>>]

\* The loop body for one node: Z from lambda * E and the contributions of
\* the adjacency entries whose source_id is in c, then tanh.
NodeUpdate(d, Ev, inc, c_prev, c_new, id) ==
    LET es == IF id \in DOMAIN inc
              THEN SelectSeq(inc[id], LAMBDA p : p.source \in DOMAIN c_prev)
              ELSE <<>>
        cs == [k \in 1..Len(es) |->
                  es[k].weight * ReadScore(c_prev, c_new, es[k].source)]
    IN  Tanh(d.lambda_ * Ev[id] + SumSeq(cs))

\* `for node in affected_nodes`, taken in the order `order` from position k
\* on; c_new starts as {}.
RECURSIVE NodePass(_, _, _, _, _, _, _)
NodePass(d, Ev, inc, c_prev, order, k, c_new) ==
    IF k > Len(order) THEN c_new
    ELSE NodePass(d, Ev, inc, c_prev, order, k + 1,
                  Put(c_new, order[k],
                      NodeUpdate(d, Ev, inc, c_prev, c_new, order[k])))

\* One pass of the while body over affected_nodes: c_new.
NodeStep(d, Ev, inc, c_prev) ==
    NodePass(d, Ev, inc, c_prev,
             IdOrder(SelectSeq(d.nodes, LAMBDA n : n.id \in DOMAIN c_prev)),
             1, EmptyDict)

\* The convergence test with <= in place of <.
NodeConvergedInclusive(d, c_new, c_prev) ==
    LET max_change == IF DOMAIN c_new = {} THEN 0 ELSE MaxChange(c_new, c_prev)
    IN  max_change <= d.epsilon

\* max_change = 0.0, then max(max_change, change) per node;
\* converged = max_change < data.epsilon
NodeConverged(d, c_new, c_prev) ==
    LET max_change == IF DOMAIN c_new = {} THEN 0 ELSE MaxChange(c_new, c_prev)
    IN  max_change < d.epsilon

\* ------------------------------------------------------------------------
\* Responses and whole runs
\* ------------------------------------------------------------------------

\* A response; status "ok" is a normal response, any other status names the
\* exception that ended the request. CredibilityPropagationResponse has no
\* affected_nodes: the field is left empty for it.
Response(status, affected, Ev, its, final) ==
    [status           |-> status,
     affected_nodes   |-> affected,
     initial_evidence |-> Ev,
     iterations       |-> its,
     final_scores     |-> final]

NoResponse == Response("none", {}, EmptyDict, <<>>, EmptyDict)

ErrorResponse(exception) == Response(exception, {}, EmptyDict, <<>>, EmptyDict)

\* final_scores = iterations[-1]
ClaimFinalScores(its, c_prev) == its[Len(its)]

\* final_scores of get_node_credibility taken one entry too early.
NodeFinalScoresEarly(its, c_last) == its[Max2(1, Len(its) - 1)]

\* final_scores = c
NodeFinalScores(its, c_last) == c_last

\* The for loop runs another pass: range(data.max_iterations) is not used up
\* and no `break` was taken.
ClaimLoopContinues(d, k, broke) == ~broke /\ k < d.max_iterations

\* The while condition with the bound off by one.
NodeLoopContinuesOffByOne(d, k, conv) == ~conv /\ k <= d.max_iterations

\* while not converged and iteration_count < data.max_iterations
NodeLoopContinues(d, k, conv) == ~conv /\ k < d.max_iterations

\* for iteration in range(data.max_iterations), from iteration k on.
RECURSIVE ClaimLoop(_, _, _, _, _, _)
ClaimLoop(d, Ev, inc, c_prev, its, k) ==
    IF ~ClaimLoopContinues(d, k, FALSE) THEN [iterations |-> its, c |-> c_prev]
    ELSE LET c_new == ClaimStep(d, Ev, inc, c_prev)
         IN  IF ClaimConverged(d, c_new, c_prev)
             THEN [iterations |-> Append(its, c_new), c |-> c_prev]
             ELSE ClaimLoop(d, Ev, inc, c_new, Append(its, c_new), k + 1)

\* get_claim_credibility from the adjacency map on (lines 146-252): the
\* general iteration loop and the response built from it.
ClaimPropagate(d, Ev) ==
    IF ~ClaimIncomingOk(d) THEN ErrorResponse("KeyError")
    ELSE LET inc == ClaimIncoming(d)
         IN  IF d.max_iterations > 0 /\ ~ClaimStepOk(inc, Ev)
             THEN ErrorResponse("KeyError")
             ELSE LET run == ClaimLoop(d, Ev, inc, Ev, <<Ev>>, 0)
                  IN  Response("ok", {}, Ev, run.iterations,
                               ClaimFinalScores(run.iterations, run.c))

get_claim_credibility(d) ==
    LET Ev == ClaimE(d)
    IN  IF ClaimEarlyReturn(d) THEN Response("ok", {}, Ev, <<Ev>>, Ev)
        ELSE ClaimPropagate(d, Ev)

\* while not converged and iteration_count < data.max_iterations, from
\* iteration_count = k on.
RECURSIVE NodeLoop(_, _, _, _, _, _)
NodeLoop(d, Ev, inc, c_prev, its, k) ==
    IF ~NodeLoopContinues(d, k, FALSE) THEN [iterations |-> its, c |-> c_prev]
    ELSE LET c_new == NodeStep(d, Ev, inc, c_prev)
         IN  IF NodeConverged(d, c_new, c_prev)
             THEN [iterations |-> Append(its, c_new), c |-> c_new]
             ELSE NodeLoop(d, Ev, inc, c_new, Append(its, c_new), k + 1)

\* get_node_credibility from Step 2 on, for the affected set `ids` that
\* Step 1 computed.
NodeAnswer(d, ids) ==
    LET nodes == AffectedNodes(d, ids)
        edges == AffectedEdges(d, ids)
    IN  IF ~NodeEOk(d, nodes) THEN ErrorResponse("TypeError")
        ELSE LET Ev == NodeE(d, nodes)
                 t  == d.target_node_id
             IN  IF IsIsolated(d)
                 THEN Response("ok", {t}, [i \in {t} |-> Ev[t]],
                               <<[i \in {t} |-> Ev[t]]>>, [i \in {t} |-> Ev[t]])
                 ELSE LET built == NodeIncoming(edges)
                      IN  IF ~built.ok THEN ErrorResponse("KeyError")
                          ELSE LET run == NodeLoop(d, Ev, built.map, Ev, <<Ev>>, 0)
                               IN  Response("ok", ids, Ev, run.iterations,
                                            NodeFinalScores(run.iterations, run.c))

get_node_credibility(d) ==
    NodeAnswer(d, get_affected_nodes(d.target_node_id, d.nodes, d.edges))

\* ------------------------------------------------------------------------
\* Requests
\* ------------------------------------------------------------------------

\* Largest max_iterations a request carries.
MaxIter == 3

\* Largest number of edges a request carries.
MaxEdges == 2

\* Edge weights: absent (a support of 1.0), neutral, an attack of strength 1.0.
Weights == {None, Some(0), Some(-100)}

\* What a NodeModel carries besides its id: the evidence list and the
\* per-node clamp bounds.
NoEvidence == [evidence |-> None, evidence_min |-> None, evidence_max |-> None]

Evidence(list) ==
    [evidence |-> Some(list), evidence_min |-> None, evidence_max |-> None]

EvidenceBounded(list, lo, hi) ==
    [evidence |-> Some(list), evidence_min |-> Some(lo), evidence_max |-> Some(hi)]

NodeModel(id, ev) ==
    [id |-> id, evidence |-> ev.evidence,
     evidence_min |-> ev.evidence_min, evidence_max |-> ev.evidence_max]

\* The node lists of the requests: no node, one node "a", two nodes "a", "b".
NodeLists ==
    {<<>>}
    \cup {<<NodeModel("a", x)>> :
            x \in {NoEvidence, Evidence(<<60, 80>>), Evidence(<<-50>>),
                   EvidenceBounded(<<200>>, 0, 150)}}
    \cup {<<NodeModel("a", p[1]), NodeModel("b", p[2])>> :
            p \in {<<NoEvidence, NoEvidence>>,
                   <<Evidence(<<60, 80>>), Evidence(<<-50>>)>>,
                   <<EvidenceBounded(<<200>>, 0, 150), NoEvidence>>}}

EdgeModel(s, t, w) == [source |-> s, target |-> t, weight |-> w]

\* Every edge list of at most MaxEdges edges between the given node ids.
EdgeLists(ids) ==
    UNION {[1..n -> {EdgeModel(s, t, w) : s \in ids, t \in ids, w \in Weights}] :
             n \in 0..MaxEdges}

\* The graph-wide clamp range [evidence_min, evidence_max].
EvidenceRanges == {<<-100, 100>>}

\* epsilon: 0.0 (no change is ever below it) and 0.02.
Epsilons == {0, 2}

\* lambda: the request models' default 0.5.
Lambdas == {50}

\* The configurations of the requests.
Configs ==
    {[lambda_ |-> l, max_iterations |-> m, epsilon |-> eps,
      evidence_min |-> Some(r[1]), evidence_max |-> Some(r[2])] :
        l \in Lambdas, m \in 0..MaxIter, eps \in Epsilons, r \in EvidenceRanges}

\* CredibilityPropagationRequest
ClaimRequest(ns, es, cfg) ==
    [nodes |-> ns, edges |-> es, lambda_ |-> cfg.lambda_,
     max_iterations |-> cfg.max_iterations, epsilon |-> cfg.epsilon,
     evidence_min |-> cfg.evidence_min, evidence_max |-> cfg.evidence_max]

\* NodeCredibilityRequest
NodeRequest(t, ns, es, cfg) ==
    [target_node_id |-> t,
     nodes |-> ns, edges |-> es, lambda_ |-> cfg.lambda_,
     max_iterations |-> cfg.max_iterations, epsilon |-> cfg.epsilon,
     evidence_min |-> cfg.evidence_min, evidence_max |-> cfg.evidence_max]

\* The request of the full-graph endpoint for the graph and the configuration
\* of a request of the selective endpoint.
AsClaimRequest(d) ==
    [nodes |-> d.nodes, edges |-> d.edges, lambda_ |-> d.lambda_,
     max_iterations |-> d.max_iterations, epsilon |-> d.epsilon,
     evidence_min |-> d.evidence_min, evidence_max |-> d.evidence_max]

\* ------------------------------------------------------------------------
\* The two endpoints as a state machine: one request per behaviour
\* ------------------------------------------------------------------------

VARIABLES
    endpoint,          \* "claim": get_claim_credibility, "node": get_node_credibility
    data,              \* the request
    pc,                \* "start", "loop" (before an iteration or the return), "done"
    E,                 \* E
    c,                 \* c_prev (claim) / c (node)
    iterations,        \* iterations
    incoming_edges,    \* incoming_edges
    affected_node_ids, \* affected_node_ids (node)
    iteration_count,   \* iteration (claim) / iteration_count (node): passes done
    converged,         \* the loop was left by break (claim) / converged (node)
    contributions,     \* what the last pass printed: node id -> its contributions
    response,          \* the response, NoResponse until the request ends
    nodes_to_check,    \* nodes_to_check of a stepwise run of get_affected_nodes
    parked             \* the locals of a second call that is not running now

vars == <<endpoint, data, pc, E, c, iterations, incoming_edges, affected_node_ids,
          iteration_count, converged, contributions, response, nodes_to_check,
          parked>>

\* No second call.
NoFrame == <<>>

\* A request has arrived and nothing has run.
Start ==
    /\ pc = "start"
    /\ E = EmptyDict
    /\ c = EmptyDict
    /\ iterations = <<>>
    /\ incoming_edges = EmptyDict
    /\ affected_node_ids = {}
    /\ iteration_count = 0
    /\ converged = FALSE
    /\ contributions = EmptyDict
    /\ response = NoResponse
    /\ nodes_to_check = {}

\* The ids the edges and the target of a request name: the ids of its nodes,
\* and for a request without nodes the id "a", which is then no node of it.
RequestIds(ns) == IF ns = <<>> THEN {"a"} ELSE Ids(ns)

\* The requests: unique node ids, edges between nodes of the request and, for
\* the selective endpoint, a target that is a node of the request; and the
\* requests with an empty node set, with any edge list and target.
Init ==
    /\ \E ns \in NodeLists : \E es \in EdgeLists(RequestIds(ns)) : \E cfg \in Configs :
          \/ /\ endpoint = "claim"
             /\ data = ClaimRequest(ns, es, cfg)
          \/ /\ endpoint = "node"
             /\ \E t \in RequestIds(ns) : data = NodeRequest(t, ns, es, cfg)
    /\ Start
    /\ parked = NoFrame

\* The request ends with `r`.
Finish(r) ==
    /\ response' = r
    /\ pc' = "done"

\* get_claim_credibility up to the loop: E, c_prev, iterations, the early
\* returns, incoming_edges.
ClaimReceive ==
    /\ endpoint = "claim"
    /\ pc = "start"
    /\ E' = ClaimE(data)
    /\ c' = E'
    /\ iterations' = <<E'>>
    /\ IF ClaimEarlyReturn(data)
       THEN /\ Finish(Response("ok", {}, E', iterations', c'))
            /\ UNCHANGED incoming_edges
       ELSE IF ~ClaimIncomingOk(data)
       THEN /\ Finish(ErrorResponse("KeyError"))
            /\ UNCHANGED incoming_edges
       ELSE /\ incoming_edges' = ClaimIncoming(data)
            /\ pc' = "loop"
            /\ UNCHANGED response
    /\ UNCHANGED <<parked, nodes_to_check, endpoint, data,affected_node_ids, iteration_count, converged,
                   contributions>>

\* One pass of `for iteration in range(data.max_iterations)`.
ClaimIterate ==
    /\ endpoint = "claim"
    /\ pc = "loop"
    /\ ClaimLoopContinues(data, iteration_count, converged)
    /\ IF ~ClaimStepOk(incoming_edges, c)
       THEN /\ Finish(ErrorResponse("KeyError"))
            /\ UNCHANGED <<c, iterations, iteration_count, converged, contributions>>
       ELSE LET c_new == ClaimStep(data, E, incoming_edges, c)
            IN  /\ contributions' = ClaimContributions(incoming_edges, c)
                /\ iterations' = Append(iterations, c_new)
                /\ iteration_count' = iteration_count + 1
                /\ converged' = ClaimConverged(data, c_new, c)
                /\ c' = IF converged' THEN c ELSE c_new
                /\ UNCHANGED <<pc, response>>
    /\ UNCHANGED <<parked, nodes_to_check, endpoint, data,E, incoming_edges, affected_node_ids>>

\* The loop is over: final_scores and the response.
ClaimReturn ==
    /\ endpoint = "claim"
    /\ pc = "loop"
    /\ ~ClaimLoopContinues(data, iteration_count, converged)
    /\ Finish(Response("ok", {}, E, iterations, ClaimFinalScores(iterations, c)))
    /\ UNCHANGED <<parked, nodes_to_check, endpoint, data,E, c, iterations, incoming_edges,
                   affected_node_ids, iteration_count, converged, contributions>>

\* get_node_credibility up to the loop: the affected subgraph, E, the early
\* return for an isolated target, c, incoming_edges, iterations.
NodeReceive ==
    /\ endpoint = "node"
    /\ pc = "start"
    /\ affected_node_ids' =
           get_affected_nodes(data.target_node_id, data.nodes, data.edges)
    /\ LET affected_nodes == AffectedNodes(data, affected_node_ids')
           affected_edges == AffectedEdges(data, affected_node_ids')
           t == data.target_node_id
       IN  IF ~NodeEOk(data, affected_nodes)
           THEN /\ Finish(ErrorResponse("TypeError"))
                /\ UNCHANGED <<E, c, iterations, incoming_edges>>
           ELSE /\ E' = NodeE(data, affected_nodes)
                /\ IF IsIsolated(data)
                   THEN /\ Finish(Response("ok", {t}, [i \in {t} |-> E'[t]],
                                           <<[i \in {t} |-> E'[t]]>>,
                                           [i \in {t} |-> E'[t]]))
                        /\ UNCHANGED <<c, iterations, incoming_edges>>
                   ELSE LET built == NodeIncoming(affected_edges)
                        IN  /\ c' = E'
                            /\ incoming_edges' = built.map
                            /\ IF ~built.ok
                               THEN /\ Finish(ErrorResponse("KeyError"))
                                    /\ UNCHANGED iterations
                               ELSE /\ iterations' = <<c'>>
                                    /\ pc' = "loop"
                                    /\ UNCHANGED response
    /\ UNCHANGED <<parked, nodes_to_check, endpoint, data,iteration_count, converged, contributions>>

\* One pass of `while not converged and iteration_count < data.max_iterations`.
NodeIterate ==
    /\ endpoint = "node"
    /\ pc = "loop"
    /\ NodeLoopContinues(data, iteration_count, converged)
    /\ LET c_new == NodeStep(data, E, incoming_edges, c)
       IN  /\ contributions' = NodeContributions(incoming_edges, c)
           /\ iteration_count' = iteration_count + 1
           /\ c' = c_new
           /\ iterations' = Append(iterations, c_new)
           /\ converged' = NodeConverged(data, c_new, c)
    /\ UNCHANGED <<parked, nodes_to_check, endpoint, data,pc, E, incoming_edges, affected_node_ids, response>>

\* The loop is over: the response.
NodeReturn ==
    /\ endpoint = "node"
    /\ pc = "loop"
    /\ ~NodeLoopContinues(data, iteration_count, converged)
    /\ Finish(Response("ok", affected_node_ids, E, iterations,
                       NodeFinalScores(iterations, c)))
    /\ UNCHANGED <<parked, nodes_to_check, endpoint, data,E, c, iterations, incoming_edges,
                   affected_node_ids, iteration_count, converged, contributions>>

Next ==
    \/ ClaimReceive
    \/ ClaimIterate
    \/ ClaimReturn
    \/ NodeReceive
    \/ NodeIterate
    \/ NodeReturn

Spec == Init /\ [][Next]_vars

\* ------------------------------------------------------------------------
\* get_affected_nodes step by step: one call per behaviour
\* ------------------------------------------------------------------------

\* Largest number of edges of a graph handed to get_affected_nodes.
MaxGraphEdges == 3

\* The nodes of those graphs: "a", "b", "c".
GraphNodes ==
    <<NodeModel("a", NoEvidence), NodeModel("b", NoEvidence), NodeModel("c", NoEvidence)>>

\* Every edge list of at most MaxGraphEdges edges between those nodes,
\* self-loops, cycles and repeated edges included.
GraphEdgeLists ==
    UNION {[1..n -> {EdgeModel(s, t, None) : s \in Ids(GraphNodes), t \in Ids(GraphNodes)}] :
             n \in 0..MaxGraphEdges}

\* A call get_affected_nodes(target_node_id, nodes, edges).
AffectedInit ==
    /\ endpoint = "affected"
    /\ \E es \in GraphEdgeLists : \E t \in Ids(GraphNodes) :
          data = [target_node_id |-> t, nodes |-> GraphNodes, edges |-> es]
    /\ Start
    /\ parked = NoFrame

\* affected_nodes = {target_node_id}; nodes_to_check = {target_node_id}
AffectedBegin ==
    /\ endpoint \in {"affected", "select"}
    /\ pc = "start"
    /\ affected_node_ids' = {data.target_node_id}
    /\ nodes_to_check' = {data.target_node_id}
    /\ pc' = "loop"
    /\ UNCHANGED <<parked, endpoint, data, E, c, iterations, incoming_edges, iteration_count,
                   converged, contributions, response>>

\* One pass of `while nodes_to_check`: nodes_to_check.pop() hands out any
\* element of the set.
AffectedVisit ==
    /\ endpoint \in {"affected", "select"}
    /\ pc = "loop"
    /\ \E current_node \in nodes_to_check :
          LET new == NewDependents(DependencyGraph(data.edges), affected_node_ids,
                                   current_node)
          IN  /\ affected_node_ids' = affected_node_ids \cup new
              /\ nodes_to_check' = NextToCheck(nodes_to_check, current_node, new)
    /\ iteration_count' = iteration_count + 1
    /\ UNCHANGED <<parked, endpoint, data, pc, E, c, iterations, incoming_edges, converged,
                   contributions, response>>

\* return affected_nodes
AffectedReturn ==
    /\ endpoint = "affected"
    /\ pc = "loop"
    /\ nodes_to_check = {}
    /\ Finish(Response("ok", affected_node_ids, EmptyDict, <<>>, EmptyDict))
    /\ UNCHANGED <<parked, endpoint, data, E, c, iterations, incoming_edges, affected_node_ids,
                   iteration_count, converged, contributions, nodes_to_check>>

NextAffected ==
    \/ AffectedBegin
    \/ AffectedVisit
    \/ AffectedReturn

SpecAffected == AffectedInit /\ [][NextAffected]_vars

\* ------------------------------------------------------------------------
\* The two endpoints on requests that vary the evidence and the clamp bounds
\* ------------------------------------------------------------------------

\* node.evidence: absent, empty, in range, out of range above and below.
EvidenceLists ==
    {None, Some(<<>>), Some(<<60, 80>>), Some(<<200>>), Some(<<-150, 50>>)}

\* What a NodeModel carries besides its id, each per-node bound given or null.
EvidenceProfiles ==
    {[evidence |-> ev, evidence_min |-> lo, evidence_max |-> hi] :
        ev \in EvidenceLists, lo \in {None, Some(0)}, hi \in {None, Some(150)}}

\* One node "a" of any profile, alone or followed by a node "b".
EvidenceNodeLists ==
    {<<NodeModel("a", p)>> : p \in EvidenceProfiles}
    \cup {<<NodeModel("a", p), NodeModel("b", q)>> :
            p \in EvidenceProfiles, q \in {NoEvidence, Evidence(<<-50>>)}}

\* No edge, a self-loop of "a", and "b" depending on "a" next to it.
EvidenceEdgeLists(ids) ==
    {es \in {<<>>,
             <<EdgeModel("a", "a", None)>>,
             <<EdgeModel("b", "a", None), EdgeModel("a", "a", None)>>} :
        \A k \in 1..Len(es) : es[k].source \in ids /\ es[k].target \in ids}

\* The graph-wide bounds evidence_min and evidence_max, each given or null.
EvidenceConfigs ==
    {[lambda_ |-> l, max_iterations |-> 1, epsilon |-> 0,
      evidence_min |-> lo, evidence_max |-> hi] :
        l \in Lambdas, lo \in {None, Some(-100)}, hi \in {None, Some(100)}}

InitEvidence ==
    /\ \E ns \in EvidenceNodeLists : \E es \in EvidenceEdgeLists(Ids(ns)) :
       \E cfg \in EvidenceConfigs :
          \/ /\ endpoint = "claim"
             /\ data = ClaimRequest(ns, es, cfg)
          \/ /\ endpoint = "node"
             /\ \E t \in Ids(ns) : data = NodeRequest(t, ns, es, cfg)
    /\ Start
    /\ parked = NoFrame

SpecEvidence == InitEvidence /\ [][Next]_vars

\* ------------------------------------------------------------------------
\* The two endpoints on requests that the request models accept although an
\* edge names an id that is no node, or a node id occurs twice
\* ------------------------------------------------------------------------

\* Largest number of edges of such a request.
MaxLooseEdges == 2

\* One node, the same id twice with different evidence, two nodes.
LooseNodeLists ==
    {<<NodeModel("a", Evidence(<<60, 80>>))>>,
     <<NodeModel("a", Evidence(<<60, 80>>)), NodeModel("a", Evidence(<<-50>>))>>,
     <<NodeModel("a", Evidence(<<60, 80>>)), NodeModel("b", NoEvidence)>>}

\* Every edge list of at most MaxLooseEdges edges between "a" and "x", which
\* is the id of no node; a weight is absent or 0.0.
LooseEdgeLists ==
    UNION {[1..n -> {EdgeModel(s, t, w) :
                        s \in {"a", "x"}, t \in {"a", "x"}, w \in {None, Some(0)}}] :
             n \in 0..MaxLooseEdges}

\* max_iterations 0, 1 or 2 and the epsilons and lambdas of the other requests.
LooseConfigs ==
    {[lambda_ |-> l, max_iterations |-> m, epsilon |-> eps,
      evidence_min |-> Some(-Scale), evidence_max |-> Some(Scale)] :
        l \in Lambdas, m \in 0..2, eps \in Epsilons}

\* Some edge names an id that is no node of the request.
HasDanglingEdge(d) ==
    \E k \in 1..Len(d.edges) :
        d.edges[k].source \notin Ids(d.nodes) \/ d.edges[k].target \notin Ids(d.nodes)

\* Some node id occurs twice in the node list.
HasDuplicateId(d) ==
    \E i, j \in 1..Len(d.nodes) : i # j /\ d.nodes[i].id = d.nodes[j].id

InitLoose ==
    /\ \E ns \in LooseNodeLists : \E es \in LooseEdgeLists : \E cfg \in LooseConfigs :
          /\ \/ /\ endpoint = "claim"
                /\ data = ClaimRequest(ns, es, cfg)
             \/ /\ endpoint = "node"
                /\ \E t \in Ids(ns) : data = NodeRequest(t, ns, es, cfg)
          /\ HasDanglingEdge(data) \/ HasDuplicateId(data)
    /\ Start
    /\ parked = NoFrame

SpecLoose == InitLoose /\ [][Next]_vars

\* ------------------------------------------------------------------------
\* get_node_credibility with its call of get_affected_nodes step by step,
\* next to get_claim_credibility on the same graphs
\* ------------------------------------------------------------------------

\* Largest number of edges of such a request.
MaxSelectEdges == 3

\* Four nodes, so that two nodes can wait in nodes_to_check while one of
\* them still has an unseen dependent.
SelectNodes ==
    <<NodeModel("a", Evidence(<<60, 80>>)), NodeModel("b", Evidence(<<-50>>)),
      NodeModel("c", NoEvidence), NodeModel("d", Evidence(<<30>>))>>

\* Every edge list of at most MaxSelectEdges edges between those nodes; a
\* weight is absent.
SelectEdgeLists ==
    UNION {[1..n -> {EdgeModel(s, t, None) : s \in Ids(SelectNodes), t \in Ids(SelectNodes)}] :
             n \in 0..MaxSelectEdges}

\* max_iterations 4, epsilon 0.02, lambda 0.5, default clamp bounds.
SelectConfig ==
    [lambda_ |-> 50, max_iterations |-> 4, epsilon |-> 2,
     evidence_min |-> Some(-Scale), evidence_max |-> Some(Scale)]

\* The target of the selective requests is "a".
InitSelect ==
    /\ \E es \in SelectEdgeLists :
          \/ /\ endpoint = "select"
             /\ data = NodeRequest("a", SelectNodes, es, SelectConfig)
          \/ /\ endpoint = "claim"
             /\ data = ClaimRequest(SelectNodes, es, SelectConfig)
    /\ Start
    /\ parked = NoFrame

\* Steps 2 to 6 of get_node_credibility, once get_affected_nodes returned.
SelectAnswer ==
    /\ endpoint = "select"
    /\ pc = "loop"
    /\ nodes_to_check = {}
    /\ Finish(NodeAnswer(data, affected_node_ids))
    /\ UNCHANGED <<parked, endpoint, data, E, c, iterations, incoming_edges, affected_node_ids,
                   iteration_count, converged, contributions, nodes_to_check>>

NextSelect ==
    \/ AffectedBegin
    \/ AffectedVisit
    \/ SelectAnswer
    \/ ClaimReceive
    \/ ClaimIterate
    \/ ClaimReturn

SpecSelect == InitSelect /\ [][NextSelect]_vars

\* ------------------------------------------------------------------------
\* Two calls at once: the endpoints are plain `def` handlers, which the
\* server runs in worker threads, so the steps of two calls interleave
\* ------------------------------------------------------------------------

\* Largest number of edges of a request of two concurrent calls.
MaxPairEdges == 1

\* The node lists of those requests.
PairNodeLists ==
    {<<NodeModel("a", Evidence(<<60, 80>>))>>,
     <<NodeModel("a", Evidence(<<60, 80>>)), NodeModel("b", Evidence(<<-50>>))>>}

\* Every edge list of at most MaxPairEdges edges between the given node ids;
\* a weight is absent.
PairEdgeLists(ids) ==
    UNION {[1..n -> {EdgeModel(s, t, None) : s \in ids, t \in ids}] :
             n \in 0..MaxPairEdges}

\* max_iterations 2, epsilon 0.0, lambda 0.5, default clamp bounds.
PairConfig ==
    [lambda_ |-> 50, max_iterations |-> 2, epsilon |-> 0,
     evidence_min |-> Some(-Scale), evidence_max |-> Some(Scale)]

\* A call: the endpoint and its request.
PairCalls ==
    UNION {{[endpoint |-> "claim", data |-> ClaimRequest(ns, es, PairConfig)] :
               es \in PairEdgeLists(Ids(ns))}
           \cup {[endpoint |-> "node", data |-> NodeRequest(t, ns, es, PairConfig)] :
                    es \in PairEdgeLists(Ids(ns)), t \in Ids(ns)} :
             ns \in PairNodeLists}

\* The locals of the running call: every name the function body binds.
Frame ==
    [endpoint |-> endpoint, data |-> data, pc |-> pc, E |-> E, c |-> c,
     iterations |-> iterations, incoming_edges |-> incoming_edges,
     affected_node_ids |-> affected_node_ids, iteration_count |-> iteration_count,
     converged |-> converged, contributions |-> contributions,
     response |-> response, nodes_to_check |-> nodes_to_check]

\* The locals of a call that has not run yet.
FreshFrame(call) ==
    [endpoint |-> call.endpoint, data |-> call.data, pc |-> "start", E |-> EmptyDict,
     c |-> EmptyDict, iterations |-> <<>>, incoming_edges |-> EmptyDict,
     affected_node_ids |-> {}, iteration_count |-> 0, converged |-> FALSE,
     contributions |-> EmptyDict, response |-> NoResponse, nodes_to_check |-> {}]

\* A loop counter that is one module-level name, shared by the calls,
\* instead of a local of each call.
ResumeSharedCounter(frame, running) ==
    [frame EXCEPT !.iteration_count = running.iteration_count]

\* What a call finds when its thread runs again: its own locals, as it left
\* them; E, the score maps, incoming_edges, iterations and the counters are
\* bound inside the function body, so the call that ran meanwhile did not
\* touch them.
Resume(frame, running) == frame

InitPair ==
    /\ \E first \in PairCalls : \E second \in PairCalls :
          /\ endpoint = first.endpoint
          /\ data = first.data
          /\ parked = FreshFrame(second)
    /\ Start

\* The scheduler takes the running call off its thread and runs the other.
Switch ==
    /\ parked # NoFrame
    /\ parked' = Frame
    /\ LET resumed == Resume(parked, Frame)
       IN  /\ endpoint' = resumed.endpoint
           /\ data' = resumed.data
           /\ pc' = resumed.pc
           /\ E' = resumed.E
           /\ c' = resumed.c
           /\ iterations' = resumed.iterations
           /\ incoming_edges' = resumed.incoming_edges
           /\ affected_node_ids' = resumed.affected_node_ids
           /\ iteration_count' = resumed.iteration_count
           /\ converged' = resumed.converged
           /\ contributions' = resumed.contributions
           /\ response' = resumed.response
           /\ nodes_to_check' = resumed.nodes_to_check

NextPair ==
    \/ Next
    \/ Switch

SpecPair == InitPair /\ [][NextPair]_vars

\* The response of a finished request is the whole run's result.
ResponseIsRun ==
    pc = "done" =>
        response = IF endpoint = "claim" THEN get_claim_credibility(data)
                                         ELSE get_node_credibility(data)

\* ------------------------------------------------------------------------
\* The propagation as the specification states it (sections 4.2 and 4.3)
\* ------------------------------------------------------------------------

\* The whole run of the endpoint that serves the current request, on `d`.
Run(d) == IF endpoint = "claim" THEN get_claim_credibility(d)
                                ELSE get_node_credibility(d)

\* The graph the propagation runs on: the request's edges for the full-graph
\* endpoint, the edges of the induced affected subgraph for the selective one.
EngineEdges ==
    IF endpoint = "claim" THEN data.edges
                          ELSE AffectedEdges(data, affected_node_ids)

\* The edge contribution policy of section 4.2: nothing for weight 0.0, else
\* w = weight or 1.0, |w| * score for w > 0 and -|w| * |score| for w < 0.
PolicyContribution(weight, score) ==
    IF weight = Some(0) THEN 0
    ELSE LET w == IF IsNone(weight) THEN Scale ELSE Val(weight)
         IN  IF w > 0 THEN Abs(w) * score ELSE -Abs(w) * Abs(score)

\* Z_i of section 4.2 over the edges whose target is i, each read at the
\* score of its source in `prev`.
PolicyZ(prev, i) ==
    LET into == SelectSeq(EngineEdges,
                          LAMBDA e : e.target = i /\ e.source \in DOMAIN prev)
    IN  data.lambda_ * E[i]
          + SumSeq([k \in 1..Len(into) |->
                       PolicyContribution(into[k].weight, prev[into[k].source])])

\* The largest per-node change between two trace entries, 0 without nodes.
Change(new, old) == IF DOMAIN new = {} THEN 0 ELSE MaxChange(new, old)

\* The request's graph has a cycle through the node the request is about
\* (a self-loop or a two-cycle).
HasCycle ==
    \E j, k \in 1..Len(data.edges) :
        /\ data.edges[j].source = data.edges[k].target
        /\ data.edges[k].source = data.edges[j].target

\* ------------------------------------------------------------------------
\* Claims
\* ------------------------------------------------------------------------

\* The request is valid: no edge names an id that is no node of it, and the
\* target of the selective endpoint is a node of it (node ids are unique in
\* every request).
ValidRequest ==
    /\ \A k \in 1..Len(data.edges) :
          data.edges[k].source \in Ids(data.nodes) /\ data.edges[k].target \in Ids(data.nodes)
    /\ endpoint = "node" => data.target_node_id \in Ids(data.nodes)

\* Section 4.1: E_i of a node is 0.0 without evidence, else the mean of its
\* evidence values, each clamped into the effective range (the node's own
\* bound where given, else the graph-wide one).
AggregatedEvidence(node, d) ==
    LET evidence == IF IsNone(node.evidence) THEN <<>> ELSE Val(node.evidence)
        lo == IF IsNone(node.evidence_min) THEN d.evidence_min ELSE node.evidence_min
        hi == IF IsNone(node.evidence_max) THEN d.evidence_max ELSE node.evidence_max
        Clamp(v) == LET capped == IF ~IsNone(hi) /\ v > Val(hi) THEN Val(hi) ELSE v
                    IN  IF ~IsNone(lo) /\ capped < Val(lo) THEN Val(lo) ELSE capped
    IN  IF evidence = <<>> THEN 0
        ELSE RoundDiv(SumSeq([k \in 1..Len(evidence) |-> Clamp(evidence[k])]),
                      Len(evidence))

\* C1: every score in every entry of the iteration trace, entry 0 included,
\* and every value of final_scores lies in [-1, 1].
C1_ScoresInRange ==
    /\ \A k \in 1..Len(iterations) : \A i \in DOMAIN iterations[k] :
           Abs(iterations[k][i]) <= Scale
    /\ \A k \in 1..Len(response.iterations) : \A i \in DOMAIN response.iterations[k] :
           Abs(response.iterations[k][i]) <= Scale
    /\ \A i \in DOMAIN response.final_scores : Abs(response.final_scores[i]) <= Scale

\* C2: the selective endpoint returns, for every node of the affected set,
\* the final score the full-graph endpoint returns for that node on the
\* whole graph with the same configuration.
C2_SelectiveConsistency ==
    (endpoint = "node" /\ pc = "done" /\ ValidRequest) =>
        LET full == get_claim_credibility(AsClaimRequest(data))
        IN  /\ response.status = "ok"
            /\ full.status = "ok"
            /\ \A n \in get_affected_nodes(data.target_node_id, data.nodes, data.edges) :
                   /\ n \in DOMAIN response.final_scores
                   /\ n \in DOMAIN full.final_scores
                   /\ response.final_scores[n] = full.final_scores[n]

\* C3: at every step the new score of node i is tanh(lambda * E_i + the sum
\* of the contributions of the edges whose target is i, each computed from
\* the previous-step score of the edge's source).
C3_UpdateRule ==
    \A k \in 1..(Len(iterations) - 1) : \A i \in DOMAIN iterations[k + 1] :
        iterations[k + 1][i] = Tanh(PolicyZ(iterations[k], i))

\* C4: in every propagation step an edge with weight w > 0 contributes
\* |w| * source_score and an edge with weight w < 0 contributes
\* -|w| * |source_score|, so an attack never contributes more than 0.
C4_AttackAsymmetry ==
    \A i \in DOMAIN contributions : \A k \in 1..Len(contributions[i]) :
        LET r == contributions[i][k]
            w == IF IsNone(r.weight) THEN Scale ELSE Val(r.weight)
        IN  /\ w > 0 => r.contribution = Abs(w) * r.source_score
            /\ w < 0 => /\ r.contribution = -Abs(w) * Abs(r.source_score)
                        /\ r.contribution <= 0

\* The request with every edge of weight exactly 0.0 removed.
WithoutZeroEdges(d) == [d EXCEPT !.edges = NonZeroEdges(d.edges)]

\* C5: the response (trace and final scores) is the response to the request
\* with every zero-weight edge removed from the edge set.
C5_ZeroWeightEdges ==
    pc = "done" =>
        LET other == Run(WithoutZeroEdges(data))
        IN  /\ response.status = other.status
            /\ response.iterations = other.iterations
            /\ response.final_scores = other.final_scores

\* C6: a node with no incoming edge in the graph the propagation runs on
\* (here: a node that no edge of that graph touches at all) is present in
\* every trace entry with its initial score E_i.
C6_SourceNodeFixed ==
    \A i \in DOMAIN E :
        (\A k \in 1..Len(EngineEdges) :
             EngineEdges[k].source # i /\ EngineEdges[k].target # i)
        => \A k \in 1..Len(iterations) :
               i \in DOMAIN iterations[k] /\ iterations[k][i] = E[i]

\* C7: a node that has incoming edges (the edges its update reads: those
\* whose source it is) none of which is meaningful in a step (weight 0.0, or
\* a contribution of magnitude at most the threshold) keeps its previous
\* score in that step.
C7_NoMeaningfulEdgeKeepsScore ==
    \A k \in 1..(Len(iterations) - 1) : \A i \in DOMAIN iterations[k + 1] :
        LET own == SelectSeq(EngineEdges,
                             LAMBDA e : e.source = i /\ e.target \in DOMAIN iterations[k])
        IN  (/\ own # <<>>
             /\ \A j \in 1..Len(own) :
                    Abs(PolicyContribution(own[j].weight, iterations[k][own[j].target]))
                        <= MeaningfulThreshold)
            => iterations[k + 1][i] = iterations[k][i]

\* The number of steps a request can still take: the passes left of the
\* max_iterations the loop may make, and the step that ends the request.
Remaining ==
    CASE pc = "start" -> Max2(data.max_iterations, 0) + 2
      [] pc = "loop"  -> (data.max_iterations - iteration_count) + 1
      [] pc = "done"  -> 0

\* C8: the propagation terminates on every graph, cyclic ones included: every
\* step of a request lowers the number of steps it can still take, it makes
\* at most max_iterations update steps, and the trace has at most
\* max_iterations + 1 entries.
C8_Terminates ==
    /\ [](/\ Remaining >= 0
          /\ iteration_count <= data.max_iterations
          /\ Len(iterations) <= iteration_count + 1
          /\ Len(iterations) <= data.max_iterations + 1
          /\ Len(response.iterations) <= data.max_iterations + 1)
    /\ [][Remaining' < Remaining]_vars

\* C8 witness: a request on a cyclic graph ended after exactly max_iterations
\* update steps without converging.
C8_Witness ==
    /\ pc = "done"
    /\ response.status = "ok"
    /\ HasCycle
    /\ ~converged
    /\ data.max_iterations = MaxIter
    /\ iteration_count = data.max_iterations
    /\ Len(response.iterations) = data.max_iterations + 1

\* Every consecutive pair of the trace `its` but the last has a maximum
\* change of at least epsilon.
OnlyLastPairBelowEpsilon(its) ==
    \A k \in 1..(Len(its) - 2) : Change(its[k + 1], its[k]) >= data.epsilon

\* The last pair of the trace `its` has a maximum change below epsilon.
LastPairBelowEpsilon(its) ==
    /\ Len(its) >= 2
    /\ Change(its[Len(its)], its[Len(its) - 1]) < data.epsilon

\* C9 as stated: in a returned trace every consecutive pair but the last
\* changes by at least epsilon, and a trace shorter than max_iterations + 1
\* entries ends with a pair whose maximum change is below epsilon.
C9_Original ==
    response.status = "ok" =>
        /\ OnlyLastPairBelowEpsilon(response.iterations)
        /\ Len(response.iterations) < data.max_iterations + 1
               => LastPairBelowEpsilon(response.iterations)

\* C9 amended: in a returned trace every consecutive pair but the last has a
\* maximum change of at least epsilon, and a trace of at least two entries
\* that is shorter than max_iterations + 1 ends with a pair whose maximum
\* change is below epsilon; a one-entry trace is an early return or the
\* result of max_iterations <= 0.
C9_ConvergenceStop ==
    response.status = "ok" =>
        /\ OnlyLastPairBelowEpsilon(response.iterations)
        /\ (/\ Len(response.iterations) >= 2
            /\ Len(response.iterations) < data.max_iterations + 1)
               => LastPairBelowEpsilon(response.iterations)
        /\ Len(response.iterations) = 1
               => \/ data.max_iterations <= 0
                  \/ endpoint = "claim" /\ ClaimEarlyReturn(data)
                  \/ endpoint = "node" /\ IsIsolated(data)

\* C9 witness: a run of the selective endpoint stopped by convergence before
\* the cap, after a step that did change a score by at least epsilon.
C9_Witness ==
    /\ pc = "done"
    /\ endpoint = "node"
    /\ response.status = "ok"
    /\ data.epsilon > 0
    /\ Len(response.iterations) = 3
    /\ Len(response.iterations) < data.max_iterations + 1
    /\ Change(response.iterations[2], response.iterations[1]) >= data.epsilon
    /\ LastPairBelowEpsilon(response.iterations)

\* C10: in every response, ended by convergence, by the iteration cap or by
\* an early return, final_scores is the last entry of iterations; a run that
\* reaches max_iterations without converging ends in a normal response.
C10_FinalIsLastEntry ==
    /\ response.status = "ok" =>
           /\ Len(response.iterations) >= 1
           /\ response.final_scores = response.iterations[Len(response.iterations)]
    /\ (pc = "done" /\ iteration_count >= 1 /\ ~converged
          /\ iteration_count = data.max_iterations) => response.status = "ok"

\* C10 witness: a run of the selective endpoint that reached max_iterations
\* without converging and whose last two trace entries differ.
C10_Witness ==
    /\ pc = "done"
    /\ endpoint = "node"
    /\ response.status = "ok"
    /\ ~converged
    /\ iteration_count = data.max_iterations
    /\ Len(response.iterations) >= 2
    /\ response.iterations[Len(response.iterations)]
           # response.iterations[Len(response.iterations) - 1]
    /\ response.final_scores = response.iterations[Len(response.iterations)]

\* Every order in which the ids of S can be processed.
Orders(S) ==
    {o \in [1..Cardinality(S) -> S] :
        \A i, j \in 1..Cardinality(S) : i # j => o[i] # o[j]}

\* The pass of the current endpoint from the snapshot `prev`, its nodes
\* taken in the order `order`.
PassInOrder(prev, order) ==
    IF endpoint = "claim"
    THEN ClaimPass(data, E, incoming_edges, prev, order, 1, prev)
    ELSE NodePass(data, E, incoming_edges, prev, order, 1, EmptyDict)

\* C11: a propagation step computes every node's new score from the previous
\* step's snapshot only, so the pass over the nodes gives the same next
\* state in whatever order the nodes are processed.
C11_SynchronousUpdate ==
    \A k \in 1..(Len(iterations) - 1) :
        \A order \in Orders(DOMAIN iterations[k]) :
            PassInOrder(iterations[k], order) = iterations[k + 1]

\* C11 witness: a step of the selective endpoint on two nodes in which a
\* node's update read the score of the other node, and that score changed
\* in the same step.
C11_Witness ==
    /\ endpoint = "node"
    /\ Len(iterations) >= 2
    /\ DOMAIN iterations[1] = {"a", "b"}
    /\ \E i \in DOMAIN incoming_edges : \E k \in 1..Len(incoming_edges[i]) :
          LET j == incoming_edges[i][k].source
          IN  /\ j # i
              /\ j \in DOMAIN iterations[1]
              /\ iterations[2][j] # iterations[1][j]

\* The request is one node and no edge, sent to the full-graph endpoint and
\* answered.
SingleNodeAnswered ==
    /\ endpoint = "claim"
    /\ pc = "done"
    /\ Len(data.nodes) = 1
    /\ Len(data.edges) = 0

\* The general iteration loop of get_claim_credibility run one step on the
\* current request.
GeneralLoopOneStep ==
    ClaimPropagate([data EXCEPT !.max_iterations = 1], ClaimE(data))

\* C12 as stated: for one node and no edge the early return is identical, in
\* iterations and in final_scores, to the general loop run one step.
C12_Original ==
    SingleNodeAnswered =>
        /\ response.iterations = GeneralLoopOneStep.iterations
        /\ response.final_scores = GeneralLoopOneStep.final_scores

\* C12 amended: for one node and no edge the early return has the final
\* scores and the initial evidence of the general loop run one step, and its
\* one-entry trace is the first entry of the loop's trace, which holds that
\* entry twice (c^(0) and the unchanged c^(1)).
C12_SingleNodeShortcut ==
    SingleNodeAnswered =>
        /\ response.status = "ok"
        /\ GeneralLoopOneStep.status = "ok"
        /\ response.final_scores = GeneralLoopOneStep.final_scores
        /\ response.initial_evidence = GeneralLoopOneStep.initial_evidence
        /\ Len(response.iterations) = 1
        /\ GeneralLoopOneStep.iterations =
               <<response.iterations[1], response.iterations[1]>>

\* C12 witness: a request of one node with evidence and no edge was answered
\* by the full-graph endpoint although max_iterations allowed two passes.
C12_Witness ==
    /\ SingleNodeAnswered
    /\ response.status = "ok"
    /\ data.max_iterations >= 2
    /\ ~IsNone(data.nodes[1].evidence)

\* The request is a single node and no edge, and it was answered.
IsolatedNodeAnswered ==
    /\ pc = "done"
    /\ Len(data.nodes) = 1
    /\ Len(data.edges) = 0

\* C13: for a graph of a single node and no edge both endpoints return a
\* trace of exactly one entry and, as the node's final score, the mean of
\* its clamped evidence values (0.0 without evidence).
C13_IsolatedNode ==
    IsolatedNodeAnswered =>
        LET node == data.nodes[1]
        IN  /\ response.status = "ok"
            /\ Len(response.iterations) = 1
            /\ DOMAIN response.final_scores = {node.id}
            /\ response.final_scores[node.id] = AggregatedEvidence(node, data)

\* The request has an empty node set and was answered.
EmptyNodeSetAnswered ==
    /\ pc = "done"
    /\ Len(data.nodes) = 0

\* C14: for an empty node set, whatever the edge list, the response is no
\* error, its iterations hold no entry and its initial_evidence and
\* final_scores are empty.
C14_EmptyNodeSet ==
    EmptyNodeSetAnswered =>
        /\ response.status = "ok"
        /\ response.iterations = <<>>
        /\ response.initial_evidence = EmptyDict
        /\ response.final_scores = EmptyDict

\* A directed edge path m -> ... -> t of at least one edge exists in `edges`
\* (a path need not visit more than every id once, plus its end).
HasPath(m, t, edges) ==
    LET ids == {t} \cup {edges[k].source : k \in 1..Len(edges)}
                   \cup {edges[k].target : k \in 1..Len(edges)}
    IN  \E n \in 1..Cardinality(ids) : \E p \in [1..(n + 1) -> ids] :
            /\ p[1] = m
            /\ p[n + 1] = t
            /\ \A i \in 1..n : \E k \in 1..Len(edges) :
                   edges[k].source = p[i] /\ edges[k].target = p[i + 1]

\* A call of get_affected_nodes has returned.
AffectedReturned == endpoint = "affected" /\ pc = "done"

SelectiveAnswered == endpoint = "node" /\ pc = "done" /\ ValidRequest

\* The target of the request is the source of no edge of the request graph.
TargetHasNoOutgoingEdge ==
    \A k \in 1..Len(data.edges) : data.edges[k].source # data.target_node_id

\* C16: when the target has no outgoing edge, the affected set the selector
\* computes is {target} alone, and the selective endpoint returns
\* affected_nodes = [target], a one-entry trace and the target's clamped
\* intrinsic evidence score as its final score, without a propagation step.
C16_DegenerateTarget ==
    (SelectiveAnswered /\ TargetHasNoOutgoingEdge) =>
        LET t == data.target_node_id
        IN  /\ affected_node_ids = {t}
            /\ response.status = "ok"
            /\ response.affected_nodes = {t}
            /\ Len(response.iterations) = 1
            /\ iteration_count = 0
            /\ DOMAIN response.final_scores = {t}
            /\ response.final_scores[t] =
                   AggregatedEvidence(NodeById(data.nodes, t), data)

\* C17: in every response of the selective endpoint the keys of
\* initial_evidence, of every trace entry and of final_scores are the ids
\* listed in affected_nodes, and affected_nodes is the set get_affected_nodes
\* returns for the target.
C17_KeySets ==
    (SelectiveAnswered /\ response.status = "ok") =>
        /\ DOMAIN response.initial_evidence = response.affected_nodes
        /\ DOMAIN response.final_scores = response.affected_nodes
        /\ \A k \in 1..Len(response.iterations) :
               DOMAIN response.iterations[k] = response.affected_nodes
        /\ response.affected_nodes =
               get_affected_nodes(data.target_node_id, data.nodes, data.edges)

\* The number of elements of the sequence s that satisfy Test.
Count(s, Test(_)) == Len(SelectSeq(s, Test))

\* C18: the adjacency map the selective endpoint builds before its loop
\* holds every edge of the induced subgraph exactly once (building it raises
\* no error), so every step sums one contribution per induced edge.
C18_AdjacencyComplete ==
    (endpoint = "node" /\ pc # "start" /\ ValidRequest /\ ~IsIsolated(data)) =>
        /\ response.status # "KeyError"
        /\ \A s, t \in affected_node_ids :
               Count(IF s \in DOMAIN incoming_edges THEN incoming_edges[s] ELSE <<>>,
                     LAMBDA p : p.source = t)
               = Count(AffectedEdges(data, affected_node_ids),
                       LAMBDA e : e.source = s /\ e.target = t)

\* Both effective clamp bounds of the node are given: each by the node or,
\* failing that, by the graph-wide configuration.
HasEffectiveRange(node, d) ==
    /\ ~IsNone(node.evidence_min) \/ ~IsNone(d.evidence_min)
    /\ ~IsNone(node.evidence_max) \/ ~IsNone(d.evidence_max)

\* C19: in both endpoints E_i of every node is 0.0 when the node has no
\* evidence and else the mean of its evidence values, each clamped into the
\* effective range: the node's own bounds where given, the graph-wide ones
\* otherwise.
C19_EvidenceAggregation ==
    pc # "start" =>
        \A id \in DOMAIN E :
            HasEffectiveRange(NodeById(data.nodes, id), data)
                => E[id] = AggregatedEvidence(NodeById(data.nodes, id), data)

\* C20: computing E_i never ends with an exception, whatever the evidence
\* list (absent, empty, out of range) and whichever bounds are null: after
\* the evidence step E holds a value for every node it was computed for.
C20_EvidenceNeverFails ==
    pc # "start" =>
        /\ response.status # "TypeError"
        /\ endpoint = "claim" => DOMAIN E = Ids(data.nodes)
        /\ endpoint = "node" => DOMAIN E = affected_node_ids \cap Ids(data.nodes)

\* The request was refused before any computation: it ended in a validation
\* error, E was never computed and no propagation step ran.
Refused ==
    /\ pc # "loop"
    /\ pc = "done" =>
          /\ response.status = "ValidationError"
          /\ E = EmptyDict
          /\ iteration_count = 0

\* C21: a request with an edge whose source or target is no node of the
\* request ends in a validation error with no propagation step: never in a
\* lookup failure, never in a normal response.
C21_DanglingEdgeRefused ==
    HasDanglingEdge(data) =>
        /\ Refused
        /\ response.status \notin {"KeyError", "ok"}

\* C22: a request with max_iterations <= 0 ends in a validation error and
\* performs no computation; it never ends in a normal response with scores.
C22_NonPositiveIterationsRefused ==
    data.max_iterations <= 0 =>
        /\ Refused
        /\ response.status # "ok"

\* C23: a request whose node list holds the same id twice ends in a
\* validation error and performs no computation; the duplicates are never
\* merged into one entry of E.
C23_DuplicateIdRefused ==
    HasDuplicateId(data) =>
        /\ Refused
        /\ ~(pc = "done" /\ response.status = "ok"
               /\ Cardinality(DOMAIN response.initial_evidence) < Len(data.nodes))

\* C24: both endpoints are deterministic: the response of a finished request
\* (affected set, initial evidence, trace, final scores) is the one value the
\* request determines, whatever order pop() takes the nodes of
\* nodes_to_check in; and while get_affected_nodes runs, every node it has
\* still to reach is a dependent of a node that waits in nodes_to_check.
C24_Deterministic ==
    /\ pc = "done" /\ endpoint = "select" => response = get_node_credibility(data)
    /\ pc = "done" /\ endpoint = "claim" => response = get_claim_credibility(data)
    /\ pc = "loop" /\ endpoint = "select" =>
          AffectedLoop(DependencyGraph(data.edges), affected_node_ids, nodes_to_check)
              = get_affected_nodes(data.target_node_id, data.nodes, data.edges)

\* A selective request is answered with a trace of propagation steps,
\* although pop() had a choice on the way: "b" and "c" both depend on the
\* target and waited in nodes_to_check together.
C24_Witness ==
    /\ pc = "done" /\ endpoint = "select"
    /\ response.status = "ok"
    /\ {"b", "c"} \subseteq response.affected_nodes
    /\ Len(response.iterations) >= 2
    /\ \E i, j \in 1..Len(data.edges) :
          /\ data.edges[i].source = "b" /\ data.edges[i].target = "a"
          /\ data.edges[j].source = "c" /\ data.edges[j].target = "a"

\* The response the call of a frame returns when it runs alone.
Alone(frame) ==
    IF frame.endpoint = "claim" THEN get_claim_credibility(frame.data)
                                ELSE get_node_credibility(frame.data)

\* C25: calls are independent: of two calls whose steps interleave in any
\* way, each one that has finished, running or suspended, carries exactly
\* the response it returns when it runs alone.
C25_CallsIndependent ==
    /\ pc = "done" => response = Alone(Frame)
    /\ parked # NoFrame /\ parked.pc = "done" => parked.response = Alone(parked)

\* Two calls of the selective endpoint for different requests have both
\* finished, each with a trace of two propagation steps, and with different
\* final scores.
C25_Witness ==
    /\ parked # NoFrame
    /\ pc = "done" /\ parked.pc = "done"
    /\ endpoint = "node" /\ parked.endpoint = "node"
    /\ data # parked.data
    /\ Len(response.iterations) = 3 /\ Len(parked.response.iterations) = 3
    /\ response.final_scores # parked.response.final_scores

\* The adjacency map `inc` files the edge under its source and nowhere else:
\* the update of the source reads the score of the target.
FiledUnderSource(inc, edge, Target(_)) ==
    /\ edge.source \in DOMAIN inc
    /\ \E k \in 1..Len(inc[edge.source]) : Target(inc[edge.source][k]) = edge.target

\* Every entry the adjacency map `inc` holds for a node comes from an edge
\* that leaves that node.
OnlyOwnEdges(inc, edges, Target(_)) ==
    \A n \in DOMAIN inc : \A k \in 1..Len(inc[n]) :
        \E j \in 1..Len(edges) :
            edges[j].source = n /\ edges[j].target = Target(inc[n][k])

\* C26: one edge direction throughout: for every edge (s, t) the graph of
\* either propagation loop holds, the adjacency map makes the update of s
\* read the score of t and no update reads along an edge backwards, and the
\* affected set holds s whenever it holds t.
C26_OneDirection ==
    /\ (endpoint = "claim" /\ pc = "loop") =>
          /\ \A k \in 1..Len(data.edges) :
                 FiledUnderSource(incoming_edges, data.edges[k], LAMBDA e : e.target)
          /\ OnlyOwnEdges(incoming_edges, data.edges, LAMBDA e : e.target)
    /\ (endpoint = "node" /\ pc # "start" /\ ValidRequest /\ ~IsIsolated(data)) =>
          LET affected_edges == AffectedEdges(data, affected_node_ids)
          IN  /\ \A k \in 1..Len(affected_edges) :
                     FiledUnderSource(incoming_edges, affected_edges[k],
                                      LAMBDA p : p.source)
              /\ OnlyOwnEdges(incoming_edges, affected_edges, LAMBDA p : p.source)
              /\ \A k \in 1..Len(data.edges) :
                     data.edges[k].target \in affected_node_ids
                         => data.edges[k].source \in affected_node_ids

\* The request with every absent edge weight replaced by the explicit 1.0.
WithExplicitWeights(d) ==
    [d EXCEPT !.edges =
        [k \in 1..Len(d.edges) |->
            IF IsNone(d.edges[k].weight)
            THEN [d.edges[k] EXCEPT !.weight = Some(Scale)]
            ELSE d.edges[k]]]

\* C27: an absent edge weight is a support of strength 1.0: in both
\* endpoints the response (trace and final scores included) is the response
\* to the request with every absent weight replaced by the explicit 1.0.
C27_AbsentWeightIsOne ==
    pc = "done" => response = Run(WithExplicitWeights(data))

\* The selective endpoint has answered with a trace of at least one step
\* over a subgraph with an edge of absent weight that reads a non-zero score.
C27_Witness ==
    /\ endpoint = "node" /\ pc = "done" /\ response.status = "ok"
    /\ Len(response.iterations) >= 2
    /\ \E k \in 1..Len(data.edges) :
          /\ IsNone(data.edges[k].weight)
          /\ data.edges[k].source \in response.affected_nodes
          /\ data.edges[k].target \in response.affected_nodes
          /\ data.edges[k].target \in DOMAIN response.iterations[1]
          /\ response.iterations[1][data.edges[k].target] # 0
    /\ data # WithExplicitWeights(data)

\* The number of edges of the longest dependency chain that starts at node n
\* and has at most `fuel` edges.
RECURSIVE ChainFrom(_, _, _)
ChainFrom(n, edges, fuel) ==
    LET next == {edges[k].target : k \in {j \in 1..Len(edges) : edges[j].source = n}}
    IN  IF fuel = 0 \/ next = {} THEN 0
        ELSE LET below == {ChainFrom(t, edges, fuel - 1) : t \in next}
             IN  1 + CHOOSE m \in below : \A x \in below : x <= m

\* The longest dependency chain of the request's graph, in edges, cut off at
\* the number of nodes: a chain of that many edges visits a node twice.
LongestChain(d) ==
    LET lengths == {ChainFrom(n, d.edges, Len(d.nodes)) : n \in Ids(d.nodes)}
    IN  CHOOSE m \in lengths : \A x \in lengths : x <= m

Acyclic(d) == LongestChain(d) < Len(d.nodes)

\* The response `r` has a trace that is constant from index `depth` on, of at
\* most depth + 2 entries, and whose last step changed no score by epsilon
\* or more.
SettlesBy(r, depth, epsilon) ==
    LET its == r.iterations
    IN  /\ r.status = "ok"
        /\ Len(its) <= depth + 2
        /\ \A k \in 1..Len(its) : k >= depth + 1 => its[k] = its[depth + 1]
        /\ Len(its) >= 2 => MaxChange(its[Len(its)], its[Len(its) - 1]) < epsilon
        /\ r.final_scores = its[Len(its)]

\* C28: get_claim_credibility on an acyclic graph whose longest dependency
\* chain has d edges, with epsilon > 0 and max_iterations > d: every score is
\* constant from trace index d on, the run ends by convergence, and the trace
\* has at most d + 2 entries; the same holds for the loop started from the
\* evidence means of the nodes in place of the E that Step 1 computes.
C28_AcyclicSettles ==
    (/\ endpoint = "claim" /\ pc = "done"
     /\ Acyclic(data)
     /\ data.epsilon > 0
     /\ data.max_iterations > LongestChain(data)) =>
        /\ SettlesBy(response, LongestChain(data), data.epsilon)
        /\ SettlesBy(ClaimPropagate(data, NodeE(data, data.nodes)),
                     LongestChain(data), data.epsilon)

\* A run on an acyclic graph with a dependency chain of three edges has
\* ended.
C28_Witness ==
    /\ endpoint = "claim" /\ pc = "done" /\ response.status = "ok"
    /\ Acyclic(data)
    /\ LongestChain(data) = 3
    /\ data.epsilon > 0
    /\ data.max_iterations > LongestChain(data)
    /\ Len(ClaimPropagate(data, NodeE(data, data.nodes)).iterations) = 5

\* E_i = 0.0 for every node the run computes.
AllZero(scores) == \A i \in DOMAIN scores : scores[i] = 0

\* C29: the all-zero state is absorbing: when E_i = 0.0 for every node, every
\* score of every trace entry and of final_scores is 0.0 in both endpoints,
\* and with epsilon > 0 the run makes one update step at most.
C29_ZeroAbsorbing ==
    (pc # "start" /\ AllZero(E)) =>
        /\ AllZero(c)
        /\ \A k \in 1..Len(iterations) : AllZero(iterations[k])
        /\ \A k \in 1..Len(response.iterations) : AllZero(response.iterations[k])
        /\ AllZero(response.final_scores)
        /\ data.epsilon > 0 =>
              /\ iteration_count <= 1
              /\ iteration_count = 1 => converged
              /\ Len(response.iterations) <= 2

\* The selective endpoint has answered a request with an attack edge of
\* weight -1.0 in its subgraph, after one step from E = 0.0 everywhere.
C29_Witness ==
    /\ endpoint = "node" /\ pc = "done" /\ response.status = "ok"
    /\ DOMAIN E # {} /\ AllZero(E)
    /\ data.epsilon > 0
    /\ data.max_iterations >= 2
    /\ Len(response.iterations) = 2
    /\ \E k \in 1..Len(data.edges) :
          /\ data.edges[k].weight = Some(-Scale)
          /\ data.edges[k].source \in affected_node_ids
          /\ data.edges[k].target \in affected_node_ids

\* The distinct node ids of the target and the edge list.
GraphIds ==
    {data.target_node_id}
    \cup {data.edges[k].source : k \in 1..Len(data.edges)}
    \cup {data.edges[k].target : k \in 1..Len(data.edges)}

\* The number of steps a call of get_affected_nodes can still take: one pass
\* per id that waits in nodes_to_check or has not been reached, and the
\* return.
Unvisited ==
    CASE pc = "start" -> Cardinality(GraphIds) + 2
      [] pc = "loop"  -> Cardinality(GraphIds \ affected_node_ids)
                             + Cardinality(nodes_to_check) + 1
      [] pc = "done"  -> 0

\* C30: get_affected_nodes terminates on every graph, cycles and self-loops
\* included: an id waits in nodes_to_check only if it is in affected_nodes,
\* every id of affected_nodes has either been popped once or waits (the
\* passes made and the ids waiting add up to the size of affected_nodes), the
\* loop makes at most as many passes as the target and the edge list have
\* distinct ids, and every step lowers the number of steps still possible.
C30_SelectorTerminates ==
    /\ [](/\ nodes_to_check \subseteq affected_node_ids
          /\ affected_node_ids \subseteq GraphIds
          /\ pc = "loop" =>
                iteration_count + Cardinality(nodes_to_check)
                    = Cardinality(affected_node_ids)
          /\ iteration_count <= Cardinality(GraphIds)
          /\ Unvisited >= 0)
    /\ [][Unvisited' < Unvisited]_vars

\* A call on a graph with a cycle through all three nodes has returned
\* after one pass per node.
C30_Witness ==
    /\ endpoint = "affected" /\ pc = "done"
    /\ \A m \in Ids(GraphNodes) \ {data.target_node_id} :
          /\ HasPath(m, data.target_node_id, data.edges)
          /\ HasPath(data.target_node_id, m, data.edges)
    /\ iteration_count = Cardinality(GraphIds)
    /\ response.affected_nodes = Ids(GraphNodes)

====
